---- MODULE Spec2Model ----
(***************************************************************************)
(* Model of tt_download_bot.py: the URL cache (session store) with its     *)
(* background sweeper, the three handlers (handle_link, cb_select_type,    *)
(* cb_download) split at their await points, the inline keyboards and the  *)
(* local download directory.                                               *)
(*                                                                         *)
(* Time is counted in seconds and advances in steps of the sweeper's       *)
(* sleep.  The Telegram side is the environment: a button can be pressed   *)
(* while its keyboard is shown, the callback is dispatched some time       *)
(* later; answer_* and delete() may raise, edit_text is taken to succeed.  *)
(* yt_dlp is the environment too: a probe fails or returns a format list,  *)
(* a download fails or writes a file named after the title.                *)
(***************************************************************************)
EXTENDS Integers, Sequences, FiniteSets, TLC

VARIABLES URL_CACHE, now, wake, msgs, hs, disk, reply, kbIn, kbOut

vars == <<URL_CACHE, now, wake, msgs, hs, disk, reply, kbIn, kbOut>>

(* ------------------------------ bounds --------------------------------- *)

\* number of sweeper periods the clock may advance
MaxTicks == 4

\* longest format list given to build_quality_keyboard in SpecKb
MaxFormats == 4

(* ---------------------------- constants -------------------------------- *)

CACHE_TTL == 15 * 60

SWEEP_INTERVAL == 300

None == "None"

\* the values str(uuid.uuid4())[:8] can take (two of the 16^8)
UIDs == {"1a2b3c4d", "9f8e7d6c"}

MediaTypes == {"video", "audio", "thumbnail"}

Handlers == {1, 2}

Msgs == {1}

(* ------------------------- string helpers ------------------------------ *)

Min(S) == CHOOSE x \in S : \A y \in S : x <= y

\* s[i:j] on a string, 1-based and inclusive
Slice(s, i, j) == SubSeq(s, i, j)

\* s.startswith(p, at position i)
StartsAt(s, i, p) == i + Len(p) - 1 <= Len(s) /\ Slice(s, i, i + Len(p) - 1) = p

\* `sub in s`
Contains(s, sub) == \E i \in 1..(Len(s) + 1) : StartsAt(s, i, sub)

\* s.find(c) + 1, 0 when c does not occur
Find(s, c) ==
  LET hits == {i \in 1..Len(s) : StartsAt(s, i, c)}
  IN  IF hits = {} THEN 0 ELSE Min(hits)

RECURSIVE Split(_, _, _)
\* s.split(sep, maxsplit)
Split(s, sep, maxsplit) ==
  LET i == Find(s, sep)
  IN  IF maxsplit = 0 \/ i = 0
        THEN <<s>>
        ELSE <<Slice(s, 1, i - 1)>> \o Split(Slice(s, i + 1, Len(s)), sep, maxsplit - 1)

\* key.capitalize()
Capitalize(key) ==
  CASE key = "tiktok" -> "Tiktok"
    [] key = "youtube" -> "Youtube"
    [] key = "instagram" -> "Instagram"
    [] key = "vk" -> "Vk"
    [] key = "pinterest" -> "Pinterest"

(* --------------------------- link extractor ---------------------------- *)

\* URL_PATTERNS in dictionary order; each pattern is
\* https?://(?:www\.)?(?:<one of hosts>)[^\s]+
URL_PATTERNS ==
  << [key |-> "tiktok",    hosts |-> <<"tiktok.com/", "vm.tiktok.com/">>],
     [key |-> "youtube",   hosts |-> <<"youtube.com/", "youtu.be/">>],
     [key |-> "instagram", hosts |-> <<"instagram.com/">>],
     [key |-> "vk",        hosts |-> <<"vk.com/video">>],
     [key |-> "pinterest", hosts |-> <<"pinterest.">>] >>

\* end of the run of non-blank characters that starts at i (i - 1 when empty)
RunEnd(s, i) ==
  LET blanks == {j \in i..Len(s) : Slice(s, j, j) = " "}
  IN  IF blanks = {} THEN Len(s) ELSE Min(blanks) - 1

\* the last index of a match of the pattern starting exactly at i, 0 if none
MatchEnd(s, i, hosts) ==
  IF ~StartsAt(s, i, "http") THEN 0
  ELSE LET a == IF StartsAt(s, i + 4, "s") THEN i + 5 ELSE i + 4
       IN  IF ~StartsAt(s, a, "://") THEN 0
           ELSE LET b == IF StartsAt(s, a + 3, "www.") THEN a + 7 ELSE a + 3
                    hit == {k \in 1..Len(hosts) : StartsAt(s, b, hosts[k])}
                IN  IF hit = {} THEN 0
                    ELSE LET c == b + Len(hosts[Min(hit)])
                             e == RunEnd(s, c)
                         IN  IF e >= c THEN e ELSE 0

\* pattern.search(text): the leftmost match, None when there is none
Search(s, hosts) ==
  LET starts == {i \in 1..Len(s) : MatchEnd(s, i, hosts) # 0}
  IN  IF starts = {} THEN None
      ELSE Slice(s, Min(starts), MatchEnd(s, Min(starts), hosts))

extract_url(text) ==
  LET hit == {k \in 1..Len(URL_PATTERNS) : Search(text, URL_PATTERNS[k].hosts) # None}
  IN  IF hit = {} THEN None ELSE Search(text, URL_PATTERNS[Min(hit)].hosts)

detect_platform(url) ==
  LET hit == {k \in 1..Len(URL_PATTERNS) : Contains(url, URL_PATTERNS[k].key)}
  IN  IF hit = {} THEN "Unknown" ELSE Capitalize(URL_PATTERNS[Min(hit)].key)

\* the message texts handle_link is fed
Texts ==
  { "check this https://vm.tiktok.com/ABC123",
    "https://youtu.be/xyz ok",
    "hello there",
    "" }

\* the texts among them that start a workflow
LinkTexts == {t \in Texts : extract_url(t) # None}

(* ------------------------------ store ---------------------------------- *)

\* mutant of Put: URL_CACHE.setdefault(uid, ...), a live entry is kept
PutIfAbsent(cache, uid, url, t) ==
  [k \in DOMAIN cache \cup {uid} |->
     IF k \in DOMAIN cache THEN cache[k] ELSE [url |-> url, time |-> t]]

\* URL_CACHE[uid] = {"url": url, "time": t}
Put(cache, uid, url, t) ==
  [k \in DOMAIN cache \cup {uid} |->
     IF k = uid THEN [url |-> url, time |-> t] ELSE cache[k]]

\* what URL_CACHE.get returns for an absent key
NoEntry == [url |-> None, time |-> 0]

\* mutant of Get: URL_CACHE.get(uid, {"url": "", "time": 0}), a default entry
GetOrDefault(cache, uid) ==
  IF uid \in DOMAIN cache THEN cache[uid] ELSE [url |-> "", time |-> 0]

\* URL_CACHE.get(uid)
Get(cache, uid) == IF uid \in DOMAIN cache THEN cache[uid] ELSE NoEntry

\* mutant of Expired: an entry expires as soon as its age reaches CACHE_TTL
ExpiredAtTtl(cache, t) == {k \in DOMAIN cache : t - cache[k].time >= CACHE_TTL}

\* mutant of Expired: the age is taken the wrong way round, v["time"] - now
ExpiredSwapped(cache, t) == {k \in DOMAIN cache : cache[k].time - t > CACHE_TTL}

\* [k for k, v in URL_CACHE.items() if now - v["time"] > CACHE_TTL]
Expired(cache, t) == {k \in DOMAIN cache : t - cache[k].time > CACHE_TTL}

\* mutant of DelAll: the loop of line 71 deletes nothing
DelNone(cache, ks) == cache

\* for k in expired: del URL_CACHE[k]
DelAll(cache, ks) == [k \in DOMAIN cache \ ks |-> cache[k]]

(* ---------------------------- keyboards -------------------------------- *)

Button(text, data) == [text |-> text, callback_data |-> data]

\* the markup returned by build_type_keyboard, for the uid it drew
build_type_keyboard(uid) ==
  << << Button("Video", "type|video|" \o uid),
        Button("Audio", "type|audio|" \o uid),
        Button("Thumbnail", "type|thumbnail|" \o uid) >> >>

\* f.get("vcodec") != "none" and f.get("ext") == "mp4" and f.get("height")
Qualifies(f) == f.vcodec # "none" /\ f.ext = "mp4" /\ f.height # 0

\* mutant of QualityButton: the token has the id before the format
QualityButtonIdFirst(f, media_type, uid) ==
  Button(ToString(f.height) \o "p",
         "dl|" \o media_type \o "|" \o uid \o "|" \o f.format_id)

QualityButton(f, media_type, uid) ==
  Button(ToString(f.height) \o "p",
         "dl|" \o media_type \o "|" \o f.format_id \o "|" \o uid)

FallbackButton(media_type, uid) ==
  Button("Best available", "dl|" \o media_type \o "|best|" \o uid)

\* [quality_buttons[i:i + 3] for i in range(0, len(quality_buttons), 3)]
Rows(bs) ==
  [r \in 1..((Len(bs) + 2) \div 3) |->
     SubSeq(bs, 3 * (r - 1) + 1, IF 3 * r < Len(bs) THEN 3 * r ELSE Len(bs))]

\* mutant of quality_buttons: the fallback is appended to every list
quality_buttons_plus_best(formats, media_type, uid) ==
  LET sel == SelectSeq(formats, Qualifies)
      bs  == [i \in 1..Len(sel) |-> QualityButton(sel[i], media_type, uid)]
  IN  Append(bs, FallbackButton(media_type, uid))

\* the list quality_buttons at line 175
quality_buttons(formats, media_type, uid) ==
  LET sel == SelectSeq(formats, Qualifies)
      bs  == [i \in 1..Len(sel) |-> QualityButton(sel[i], media_type, uid)]
  IN  IF Len(bs) = 0 THEN <<FallbackButton(media_type, uid)>> ELSE bs

build_quality_keyboard(formats, media_type, uid) ==
  Rows(quality_buttons(formats, media_type, uid))

RECURSIVE Flat(_)
\* the buttons of a keyboard, row after row
Flat(rows) == IF Len(rows) = 0 THEN <<>> ELSE Head(rows) \o Flat(Tail(rows))

NoKeyboard == <<>>

(* --------------------------- media provider ---------------------------- *)

\* the formats yt_dlp knows (vcodec "absent": the key is missing)
F360 == [format_id |-> "18", vcodec |-> "avc1", ext |-> "mp4", height |-> 360]

F720 == [format_id |-> "22", vcodec |-> "absent", ext |-> "mp4", height |-> 720]

F720b == [format_id |-> "136", vcodec |-> "avc1", ext |-> "mp4", height |-> 720]

F1080 == [format_id |-> "137", vcodec |-> "avc1", ext |-> "mp4", height |-> 1080]

FAudio == [format_id |-> "140", vcodec |-> "none", ext |-> "m4a", height |-> 0]

FWebm == [format_id |-> "247", vcodec |-> "vp9", ext |-> "webm", height |-> 720]

FNoHeight == [format_id |-> "5", vcodec |-> "avc1", ext |-> "mp4", height |-> 0]

Encodings == {F360, F720, F720b, F1080, FAudio, FWebm, FNoHeight}

\* what get_video_info returns in the workflow: None or info.formats
ProbeOutcomes ==
  { [ok |-> FALSE, formats |-> <<>>],
    [ok |-> TRUE,  formats |-> <<>>],
    [ok |-> TRUE,  formats |-> <<FAudio, F360>>] }

\* info["title"] for a url
Title(url) == "clip of " \o url

DOWNLOAD_DIR == "downloads"

\* ydl.prepare_filename(info) under outtmpl DOWNLOAD_DIR/%(title)s.%(ext)s
prepare_filename(url, ext) == DOWNLOAD_DIR \o "/" \o Title(url) \o "." \o ext

\* p.rsplit(".", 1)[0]
RSplitBase(p) ==
  LET dots == {i \in 1..Len(p) : Slice(p, i, i) = "."}
  IN  IF dots = {} THEN p
      ELSE Slice(p, 1, (CHOOSE i \in dots : \A j \in dots : j <= i) - 1)

\* "format": fmt_id or "best", overridden for audio
YdlFormat(fmt_id, media_type) ==
  IF media_type = "audio" THEN "bestaudio/best"
  ELSE IF fmt_id = "" THEN "best" ELSE fmt_id

\* the container of the stream yt_dlp picks; "error" when extract_info raises
SourceExts(media_type) ==
  IF media_type = "audio" THEN {"error", "webm", "mp3"} ELSE {"error", "mp4"}

\* download_media: the path it returns and the files the run left on disk.
\* FFmpegExtractAudio turns the audio stream into <title>.mp3 and drops the
\* source; writethumbnail writes <title>.jpg and skips the download.
download_media(url, fmt_id, media_type, ext) ==
  LET made ==
        IF ext = "error" THEN [ret |-> None, written |-> {}]
        ELSE IF media_type = "thumbnail"
          THEN [ret     |-> RSplitBase(prepare_filename(url, ext)) \o ".jpg",
                written |-> {RSplitBase(prepare_filename(url, ext)) \o ".jpg"}]
        ELSE IF media_type = "audio"
          THEN [ret |-> prepare_filename(url, ext),
                written |-> {prepare_filename(url, "mp3")}]
        ELSE [ret |-> prepare_filename(url, ext),
              written |-> {prepare_filename(url, ext)}]
  IN  [format |-> YdlFormat(fmt_id, media_type), ret |-> made.ret,
       written |-> made.written]

\* os.path.exists(path)
Exists(d, path) == path \in d

\* os.remove(path), its exception swallowed
Remove(d, path) == d \ {path}

(* ------------------------------ state ---------------------------------- *)

\* a handler slot with no callback in it.  cb: the handler the dispatcher
\* chose.  msg 0: the message is not followed any more.  res: the result the
\* pending download_media call will deliver.
\* made: the files the handler's download put on disk.
Idle ==
  [pc |-> "idle", cb |-> "", data |-> "", msg |-> 0, media_type |-> "", uid |-> "",
   res |-> [format |-> "", ret |-> None, written |-> {}], path |-> None, made |-> {},
   outcome |-> "none", sent |-> FALSE]

\* the outcomes with which cb_download ends after it found the session
Terminal == {"download_failed", "upload_failed", "delivered"}

\* a handler that returned: its locals are gone, its outcome is kept
Done(h, outcome) == [Idle EXCEPT !.pc = "done", !.cb = h.cb, !.outcome = outcome]

NoMessage == [alive |-> FALSE, kb |-> NoKeyboard]

NoReply == [notice |-> "none", platform |-> ""]

NoInput == [formats |-> <<>>, media_type |-> "", uid |-> ""]

\* call.message.edit_text(text, reply_markup=kb): the keyboard is replaced
Edit(ms, m, kb) ==
  IF m \in DOMAIN ms /\ ms[m].alive THEN [ms EXCEPT ![m].kb = kb] ELSE ms

Init ==
  /\ URL_CACHE = <<>>
  /\ now = 0
  /\ wake = 0
  /\ msgs = [m \in Msgs |-> NoMessage]
  /\ hs = [hh \in Handlers |-> Idle]
  /\ disk = {}
  /\ reply = NoReply
  /\ kbIn = NoInput
  /\ kbOut = NoKeyboard

(* ----------------------------- sweeper --------------------------------- *)

\* mutant of Sweep: a pass torn by the loop, which drops the whole store
\* and dies on the first key another task has taken away
SweepTorn ==
  /\ now >= wake
  /\ URL_CACHE' = <<>>
  /\ wake' = IF URL_CACHE = <<>> THEN now + SWEEP_INTERVAL ELSE wake
  /\ UNCHANGED <<now, msgs, hs, disk, reply, kbIn, kbOut>>

\* one pass of cleanup_cache's loop, up to its sleep
Sweep ==
  /\ now >= wake
  /\ URL_CACHE' = DelAll(URL_CACHE, Expired(URL_CACHE, now))
  /\ wake' = now + SWEEP_INTERVAL
  /\ UNCHANGED <<now, msgs, hs, disk, reply, kbIn, kbOut>>

\* the clock advances while the sweeper sleeps
Tick ==
  /\ now < wake
  /\ now < MaxTicks * SWEEP_INTERVAL
  /\ now' = now + SWEEP_INTERVAL
  /\ UNCHANGED <<URL_CACHE, wake, msgs, hs, disk, reply, kbIn, kbOut>>

(* ---------------------------- handle_link ------------------------------ *)

\* message slot m is taken for a new message: the message it held is not
\* followed any more, nor are the handlers working on it
Detach(m) ==
  [hh \in Handlers |-> IF hs[hh].msg = m THEN [hs[hh] EXCEPT !.msg = 0] ELSE hs[hh]]

HandleLink(text, uid, m) ==
  LET url == extract_url(text)
  IN  /\ IF url = None
           THEN /\ reply' = [NoReply EXCEPT !.notice = "no_link"]
                /\ UNCHANGED <<URL_CACHE, msgs, hs>>
           ELSE /\ URL_CACHE' = Put(URL_CACHE, uid, url, now)
                /\ msgs' = [msgs EXCEPT ![m] = [alive |-> TRUE,
                                                kb |-> build_type_keyboard(uid)]]
                /\ hs' = Detach(m)
                /\ reply' = [notice |-> "type_prompt", platform |-> detect_platform(url)]
      /\ UNCHANGED <<now, wake, disk, kbIn, kbOut>>

(* --------------------------- button press ------------------------------ *)

\* the user presses button i of message m; the callback waits for dispatch
\* (in the first slot that is free: the slots are interchangeable)
Press(hh, m, i) ==
  /\ hs[hh].pc \in {"idle", "done"}
  /\ \A g \in Handlers : g < hh => hs[g].pc \notin {"idle", "done"}
  /\ msgs[m].alive
  /\ i \in 1..Len(Flat(msgs[m].kb))
  /\ hs' = [hs EXCEPT ![hh] = [Idle EXCEPT !.pc = "queued", !.msg = m,
                                 !.data = Flat(msgs[m].kb)[i].callback_data]]
  /\ UNCHANGED <<URL_CACHE, now, wake, msgs, disk, reply, kbIn, kbOut>>

(* -------------------------- cb_select_type ----------------------------- *)

\* mutant of CbSelectType: the lookup renews the session (sliding expiry)
CbSelectTypeRenewing(hh) ==
  LET h == hs[hh]
      parts == Split(h.data, "|", 2)
  IN  /\ h.pc = "queued"
      /\ StartsAt(h.data, 1, "type|")
      /\ IF Len(parts) # 3
           THEN /\ hs' = [hs EXCEPT ![hh] = Done([h EXCEPT !.cb = "type"], "fault")]
                /\ UNCHANGED <<msgs, URL_CACHE>>
           ELSE LET g == [h EXCEPT !.cb = "type", !.data = "", !.media_type = parts[2], !.uid = parts[3]]
                    entry == Get(URL_CACHE, g.uid)
                IN  /\ msgs' = Edit(msgs, h.msg, NoKeyboard)
                    /\ IF entry = NoEntry
                         THEN /\ hs' = [hs EXCEPT ![hh] = Done(g, "expired")]
                              /\ UNCHANGED URL_CACHE
                         ELSE /\ hs' = [hs EXCEPT ![hh] = [g EXCEPT !.pc = "probing"]]
                              /\ URL_CACHE' = Put(URL_CACHE, g.uid, entry.url, now)
      /\ UNCHANGED <<now, wake, disk, reply, kbIn, kbOut>>

\* up to the await of get_video_info
CbSelectType(hh) ==
  LET h == hs[hh]
      parts == Split(h.data, "|", 2)
  IN  /\ h.pc = "queued"
      /\ StartsAt(h.data, 1, "type|")
      /\ IF Len(parts) # 3
           THEN /\ hs' = [hs EXCEPT ![hh] = Done([h EXCEPT !.cb = "type"], "fault")]
                /\ UNCHANGED msgs
           ELSE LET g == [h EXCEPT !.cb = "type", !.data = "", !.media_type = parts[2], !.uid = parts[3]]
                    entry == Get(URL_CACHE, g.uid)
                IN  /\ msgs' = Edit(msgs, h.msg, NoKeyboard)
                    /\ IF entry = NoEntry
                         THEN hs' = [hs EXCEPT ![hh] = Done(g, "expired")]
                         ELSE hs' = [hs EXCEPT ![hh] = [g EXCEPT !.pc = "probing"]]
      /\ UNCHANGED <<URL_CACHE, now, wake, disk, reply, kbIn, kbOut>>

\* get_video_info returned: the failure notice, or the quality keyboard
CbSelectTypeProbed(hh, info) ==
  LET h == hs[hh]
  IN  /\ h.pc = "probing"
      /\ IF ~info.ok
           THEN /\ msgs' = Edit(msgs, h.msg, NoKeyboard)
                /\ hs' = [hs EXCEPT ![hh] = Done(h, "probe_failed")]
           ELSE /\ msgs' = Edit(msgs, h.msg,
                                build_quality_keyboard(info.formats, h.media_type, h.uid))
                /\ hs' = [hs EXCEPT ![hh] = Done(h, "quality_prompt")]
      /\ UNCHANGED <<URL_CACHE, now, wake, disk, reply, kbIn, kbOut>>

(* ---------------------------- cb_download ------------------------------ *)

\* up to the await of download_media; ext is what yt_dlp will make of the call
CbDownload(hh, ext) ==
  LET h == hs[hh]
      parts == Split(h.data, "|", 3)
  IN  /\ h.pc = "queued"
      /\ StartsAt(h.data, 1, "dl|")
      /\ IF Len(parts) # 4
           THEN /\ ext = "error"
                /\ hs' = [hs EXCEPT ![hh] = Done([h EXCEPT !.cb = "dl"], "fault")]
                /\ UNCHANGED msgs
           ELSE LET g == [h EXCEPT !.cb = "dl", !.data = "", !.media_type = parts[2], !.uid = parts[4]]
                    entry == Get(URL_CACHE, g.uid)
                IN  /\ msgs' = Edit(msgs, h.msg, NoKeyboard)
                    /\ IF entry = NoEntry
                         THEN /\ ext = "error"
                              /\ hs' = [hs EXCEPT ![hh] = Done(g, "expired")]
                         ELSE /\ ext \in SourceExts(g.media_type)
                              /\ hs' = [hs EXCEPT ![hh] =
                                   [g EXCEPT !.pc = "downloading",
                                             !.res = download_media(entry.url, parts[3],
                                                                    g.media_type, ext)]]
      /\ UNCHANGED <<URL_CACHE, now, wake, disk, reply, kbIn, kbOut>>

\* download_media returned: the failure notice, or the upload starts.
\* made: the files this run put on disk (a file already there is left alone)
CbDownloadFetched(hh) ==
  LET h == hs[hh]
      made == h.res.written \ disk
      d == disk \cup h.res.written
  IN  /\ h.pc = "downloading"
      /\ disk' = d
      /\ IF h.res.ret = None \/ ~Exists(d, h.res.ret)
           THEN /\ msgs' = Edit(msgs, h.msg, NoKeyboard)
                /\ hs' = [hs EXCEPT ![hh] = Done(h, "download_failed")]
           ELSE /\ hs' = [hs EXCEPT ![hh] =
                            [h EXCEPT !.pc = "uploading", !.path = h.res.ret,
                                      !.made = made, !.res = Idle.res]]
                /\ UNCHANGED msgs
      /\ UNCHANGED <<URL_CACHE, now, wake, reply, kbIn, kbOut>>

\* answer_audio / answer_photo / answer_video returned or raised
CbDownloadUploaded(hh, ok) ==
  LET h == hs[hh]
  IN  /\ h.pc = "uploading"
      /\ ok => Exists(disk, h.path)
      /\ hs' = [hs EXCEPT ![hh] =
                  IF ok THEN [h EXCEPT !.pc = "deleting", !.sent = TRUE]
                        ELSE [h EXCEPT !.pc = "notifying"]]
      /\ UNCHANGED <<URL_CACHE, now, wake, msgs, disk, reply, kbIn, kbOut>>

\* the handler's finally block, and its return
Finally(hh, outcome) ==
  /\ disk' = Remove(disk, hs[hh].path)
  /\ hs' = [hs EXCEPT ![hh] = Done(hs[hh], outcome)]

\* call.message.delete() returned or raised
CbDownloadDeleted(hh, ok) ==
  LET h == hs[hh]
  IN  /\ h.pc = "deleting"
      /\ ok => (h.msg \in Msgs /\ msgs[h.msg].alive)
      /\ IF ok
           THEN /\ msgs' = [msgs EXCEPT ![h.msg] = NoMessage]
                /\ Finally(hh, "delivered")
           ELSE /\ hs' = [hs EXCEPT ![hh] = [h EXCEPT !.pc = "notifying"]]
                /\ UNCHANGED <<msgs, disk>>
      /\ UNCHANGED <<URL_CACHE, now, wake, reply, kbIn, kbOut>>

\* the except block's edit_text returned
CbDownloadNotified(hh) ==
  LET h == hs[hh]
  IN  /\ h.pc = "notifying"
      /\ msgs' = Edit(msgs, h.msg, NoKeyboard)
      /\ Finally(hh, "upload_failed")
      /\ UNCHANGED <<URL_CACHE, now, wake, reply, kbIn, kbOut>>

(* --------------------------- specification ---------------------------- *)

\* The workflow: every handler, two callbacks in flight at a time, every
\* button, every provider and messenger outcome.  The clock stands still
\* (within the sweeper's first sleep) and the user sends one link, possibly
\* again and again, for which uuid4 draws the same id.
FlowTexts == {"check this https://vm.tiktok.com/ABC123"}

FlowUids == {"1a2b3c4d"}

Next ==
  \/ Sweep
  \/ \E text \in FlowTexts, uid \in FlowUids, m \in Msgs : HandleLink(text, uid, m)
  \/ \E hh \in Handlers, m \in Msgs, i \in 1..3 : Press(hh, m, i)
  \/ \E hh \in Handlers : CbSelectType(hh)
  \/ \E hh \in Handlers, info \in ProbeOutcomes : CbSelectTypeProbed(hh, info)
  \/ \E hh \in Handlers, ext \in {"error", "mp4", "webm", "mp3"} : CbDownload(hh, ext)
  \/ \E hh \in Handlers : CbDownloadFetched(hh)
  \/ \E hh \in Handlers, ok \in BOOLEAN : CbDownloadUploaded(hh, ok)
  \/ \E hh \in Handlers, ok \in BOOLEAN : CbDownloadDeleted(hh, ok)
  \/ \E hh \in Handlers : CbDownloadNotified(hh)

Spec == Init /\ [][Next]_vars

\* Expiry: the clock runs and the sweeper with it; one callback at a time,
\* the user picks the first button, and yt_dlp fails every download.
NextExpiry ==
  \/ Sweep
  \/ Tick
  \/ \E text \in LinkTexts, uid \in UIDs, m \in Msgs : HandleLink(text, uid, m)
  \/ \E m \in Msgs : Press(1, m, 1)
  \/ CbSelectType(1)
  \/ \E info \in ProbeOutcomes : CbSelectTypeProbed(1, info)
  \/ CbDownload(1, "error")
  \/ CbDownloadFetched(1)

SpecExpiry == Init /\ [][NextExpiry]_vars

\* The store alone: links and texts without one, the clock and the sweeper.
NextStore ==
  \/ Sweep
  \/ Tick
  \/ \E text \in Texts, uid \in UIDs, m \in Msgs : HandleLink(text, uid, m)

SpecStore == Init /\ [][NextStore]_vars

\* The store with a sweeper that keeps running and a clock that keeps
\* going: the loop of cleanup_cache never ends (while True) and the event
\* loop resumes it when its sleep is over.
SpecStoreFair == SpecStore /\ WF_vars(Sweep) /\ WF_vars(Tick)

\* build_quality_keyboard alone, on every list of up to MaxFormats formats
\* (a format occurs once in a list: yt_dlp's format ids are distinct)
RECURSIVE SeqsUpTo(_, _)
SeqsUpTo(S, n) ==
  IF n = 0 THEN {<<>>}
  ELSE LET shorter == SeqsUpTo(S, n - 1)
       IN  shorter \cup
           UNION {{Append(q, x) : x \in S \ {q[i] : i \in 1..Len(q)}} :
                    q \in {r \in shorter : Len(r) = n - 1}}

InitKb ==
  /\ URL_CACHE = <<>>
  /\ now = 0
  /\ wake = 0
  /\ msgs = [m \in Msgs |-> NoMessage]
  /\ hs = [hh \in Handlers |-> Idle]
  /\ disk = {}
  /\ reply = NoReply
  /\ kbIn \in [formats : SeqsUpTo(Encodings, MaxFormats), media_type : MediaTypes,
               uid : {"1a2b3c4d"}]
  /\ kbOut = NoKeyboard

\* the call at line 215
BuildKb ==
  /\ kbOut = NoKeyboard
  /\ kbOut' = build_quality_keyboard(kbIn.formats, kbIn.media_type, kbIn.uid)
  /\ UNCHANGED <<URL_CACHE, now, wake, msgs, hs, disk, reply, kbIn>>

SpecKb == InitKb /\ [][BuildKb]_vars

\* The link extractor alone: handle_link on texts that hold exactly one
\* link, of every host the patterns of lines 44-50 accept, with and without
\* www., over http and https, at the start, in the middle and at the end.
FamilyTexts ==
  { "https://tiktok.com/@u/video/1",
    "look https://www.tiktok.com/@u/video/2",
    "check this https://vm.tiktok.com/ABC123",
    "http://www.vm.tiktok.com/ZM9 now",
    "https://youtube.com/watch?v=abc",
    "see https://www.youtube.com/shorts/q1 !",
    "https://youtu.be/xyz ok",
    "http://www.youtu.be/xyz2",
    "reel https://instagram.com/reel/Cx1/",
    "https://www.instagram.com/p/B2/ nice",
    "https://vk.com/video-1_2",
    "clip http://www.vk.com/video33_44",
    "https://pinterest.com/pin/77/",
    "pin https://www.pinterest.co.uk/pin/78/ here" }

NextLink ==
  \E text \in FamilyTexts, uid \in UIDs, m \in Msgs : HandleLink(text, uid, m)

SpecLink == Init /\ [][NextLink]_vars

(* ------------------------------ claims --------------------------------- *)

\* the session id a callback token carries
UidOf(data) ==
  LET parts == Split(data, "|", IF StartsAt(data, 1, "type|") THEN 2 ELSE 3)
  IN  parts[Len(parts)]

\* handler hh takes its callback up in this step
Starts(hh) == hs[hh].pc = "queued" /\ hs'[hh].pc # "queued"

\* cb_download of handler hh, having found its session, returns in this step
Ends(hh) ==
  /\ hs[hh].cb = "dl"
  /\ hs[hh].pc # "done"
  /\ hs'[hh].pc = "done"
  /\ hs'[hh].outcome \in Terminal

\* C1: once cb_download has ended (delivered or failed) for a session id,
\* that id is no longer in the store, so a stale button carrying it gets the
\* expired-session notice.
C1_ConsumedOnTerminal ==
  [][\A hh \in Handlers : Ends(hh) => Get(URL_CACHE', hs[hh].uid) = NoEntry]_vars

\* C2: a SelectType or SelectQuality action handled when its session is
\* older than CACHE_TTL gets the expired-session notice, swept or not.
C2_ExpiredPastTtl ==
  [][\A hh \in Handlers :
       (/\ Starts(hh)
        /\ UidOf(hs[hh].data) \in DOMAIN URL_CACHE
        /\ now - URL_CACHE[UidOf(hs[hh].data)].time > CACHE_TTL)
       => hs'[hh].outcome = "expired"]_vars

\* a put: handle_link on a text with a link, in this step
Puts(text, uid, m) == HandleLink(text, uid, m) /\ extract_url(text) # None

\* C3: every put returns an id that no live session has, so no put
\* overwrites the url or the creation time of a live session.
C3_PutIsFresh ==
  [][\A text \in Texts, uid \in UIDs, m \in Msgs :
       Puts(text, uid, m) =>
         /\ uid \notin DOMAIN URL_CACHE
         /\ \A k \in DOMAIN URL_CACHE :
              k \in DOMAIN URL_CACHE' /\ URL_CACHE'[k] = URL_CACHE[k]]_vars

\* the files handler hh's download put on disk that are still there after
\* the step in which it returns
LeftBehind(hh) ==
  IF hs[hh].pc = "downloading" THEN (hs[hh].res.written \ disk) \cap disk'
  ELSE hs[hh].made \cap disk'

\* C4: a file that the download of a SelectQuality handling produced no
\* longer exists when the handler has ended, whether the upload succeeded,
\* the upload raised, or the download was reported as failed.
C4_NoFileLeftBehind ==
  [][\A hh \in Handlers : Ends(hh) => LeftBehind(hh) = {}]_vars

\* the paths a running cb_download writes to or holds
InFlight(hh) ==
  IF hs[hh].pc = "downloading"
    THEN hs[hh].res.written \cup ({hs[hh].res.ret} \ {None})
  ELSE IF hs[hh].pc \in {"uploading", "deleting", "notifying"} THEN {hs[hh].path}
  ELSE {}

\* C5: no two downloads in flight use the same local path, and the file a
\* handler uploads and deletes is one its own download produced.
C5_PathsAreExclusive ==
  /\ \A g \in Handlers, hh \in Handlers : g # hh => InFlight(g) \cap InFlight(hh) = {}
  /\ \A hh \in Handlers :
       hs[hh].pc \in {"uploading", "deleting", "notifying"} => hs[hh].path \in hs[hh].made

UrlBehind(cache, ms, m, i) ==
  Get(cache, Split(Flat(ms[m].kb)[i].callback_data, "|", 2)[3]).url

\* C7: a put followed at once by a get with the id the put handed out (the
\* id in the type buttons) gives the url that was put.
C7_PutGetRoundTrip ==
  [][\A text \in Texts, uid \in UIDs, m \in Msgs :
       Puts(text, uid, m) =>
         \A i \in 1..3 : UrlBehind(URL_CACHE', msgs', m, i) = extract_url(text)]_vars

\* C7 witness: a second link has been put and its buttons lead to its url
C7_Witness ==
  /\ Cardinality(DOMAIN URL_CACHE) = 2
  /\ reply.platform = "Unknown"
  /\ msgs[1].alive
  /\ Len(Flat(msgs[1].kb)) = 3
  /\ UrlBehind(URL_CACHE, msgs, 1, 1) = "https://youtu.be/xyz"

\* C8: after a sweep pass at time now, every entry that was older than
\* CACHE_TTL at that pass is gone, and a get for its id finds nothing.
C8_SweepRemovesExpired ==
  [][Sweep =>
       \A k \in DOMAIN URL_CACHE :
         now - URL_CACHE[k].time > CACHE_TTL
           => k \notin DOMAIN URL_CACHE' /\ Get(URL_CACHE', k) = NoEntry]_vars

\* C8 witness: the pass at this time is over and the session that was put
\* has gone with it
C8_Witness ==
  /\ now > CACHE_TTL
  /\ wake > now
  /\ reply.notice = "type_prompt"
  /\ URL_CACHE = <<>>

RECURSIVE FirstPerHeight(_, _)
\* the first qualifying format of each height, in source order
FirstPerHeight(fs, seen) ==
  IF Len(fs) = 0 THEN <<>>
  ELSE IF Qualifies(Head(fs)) /\ Head(fs).height \notin seen
    THEN <<Head(fs)>> \o FirstPerHeight(Tail(fs), seen \cup {Head(fs).height})
  ELSE FirstPerHeight(Tail(fs), seen)

\* label and format id of every button of a quality keyboard
Choices(rows) ==
  [i \in 1..Len(Flat(rows)) |->
     <<Flat(rows)[i].text, Split(Flat(rows)[i].callback_data, "|", 3)[3]>>]

\* C9: for media_type video the quality choices are the first qualifying
\* format of each height, one choice per height, in source order.
C9_OneChoicePerHeight ==
  LET want == FirstPerHeight(kbIn.formats, {})
  IN  (kbOut # NoKeyboard /\ kbIn.media_type = "video" /\ Len(want) > 0)
      => Choices(kbOut) =
           [i \in 1..Len(want) |-> <<ToString(want[i].height) \o "p", want[i].format_id>>]

\* C10: for media_type audio or thumbnail the quality keyboard rendered
\* after a successful probe is the single fallback choice, format id best.
C10_NonVideoIsFallback ==
  \A m \in Msgs :
    \A i \in 1..Len(Flat(msgs[m].kb)) :
      LET parts == Split(Flat(msgs[m].kb)[i].callback_data, "|", 3)
      IN  (parts[1] = "dl" /\ parts[2] \in {"audio", "thumbnail"})
          => Len(Flat(msgs[m].kb)) = 1 /\ parts[3] = "best"

\* C11: the quality keyboard holds the fallback choice (id best) exactly
\* when no format passes the video filter; it is then the only choice, with
\* the label "Best available"; the empty list is such a case.
C11_FallbackIffNoneQualifies ==
  LET none == \A i \in 1..Len(kbIn.formats) : ~Qualifies(kbIn.formats[i])
      cs   == Choices(kbOut)
  IN  kbOut # NoKeyboard
      => /\ (\E i \in 1..Len(cs) : cs[i][2] = "best") <=> none
         /\ none => cs = << <<"Best available", "best">> >>
         /\ Len(kbIn.formats) = 0 => Len(cs) = 1

\* C11 witness: a list of formats none of which passes the filter has been
\* rendered as the single fallback button
C11_Witness ==
  /\ kbIn.formats = <<FAudio, FWebm, FNoHeight>>
  /\ kbIn.media_type = "video"
  /\ Choices(kbOut) = << <<"Best available", "best">> >>

\* C12: handle_link on a text without a link sends the no-link notice and
\* leaves the store as it was; on a text with a link it adds exactly one
\* session to the store, and that session holds the link.
C12_HandleLinkAddsOneSession ==
  [][\A text \in Texts, uid \in UIDs, m \in Msgs :
       HandleLink(text, uid, m) =>
         IF extract_url(text) = None
           THEN reply'.notice = "no_link" /\ URL_CACHE' = URL_CACHE
           ELSE /\ Cardinality(DOMAIN URL_CACHE') = Cardinality(DOMAIN URL_CACHE) + 1
                /\ \A k \in DOMAIN URL_CACHE : URL_CACHE'[k] = URL_CACHE[k]
                /\ \E k \in DOMAIN URL_CACHE' \ DOMAIN URL_CACHE :
                     URL_CACHE'[k].url = extract_url(text)]_vars

\* the one link of a text: its blank-delimited word that starts with http
TheLink(text) == Slice(text, Find(text, "http"), RunEnd(text, Find(text, "http")))

\* C13: for a text that holds exactly one link of a supported host,
\* extract_url returns that link (it is what handle_link stores) and
\* detect_platform names a platform for it, never "Unknown".
C13_LinkFoundAndPlatformKnown ==
  [][\A text \in FamilyTexts, uid \in UIDs, m \in Msgs :
       HandleLink(text, uid, m) =>
         /\ uid \in DOMAIN URL_CACHE'
         /\ URL_CACHE'[uid].url = TheLink(text)
         /\ reply'.notice = "type_prompt"
         /\ reply'.platform # "Unknown"]_vars

\* a callback handler (cb_select_type or cb_download) runs in this step
Handles(hh) == hs[hh].pc \notin {"idle", "done"} /\ hs'[hh].pc # hs[hh].pc

\* C14: a step of cb_select_type or cb_download, on whatever path, leaves
\* every entry of the store in place with its url and its creation time, so
\* no handling postpones the expiry of a session.
C14_LookupIsReadOnly ==
  [][\A hh \in Handlers :
       Handles(hh) =>
         \A k \in DOMAIN URL_CACHE :
           k \in DOMAIN URL_CACHE' /\ URL_CACHE'[k] = URL_CACHE[k]]_vars

\* C14 witness: a session put after the first period has been looked up by
\* cb_select_type and by cb_download and still has the time of its put
C14_Witness ==
  /\ now = 3 * SWEEP_INTERVAL
  /\ hs[1].pc = "done"
  /\ hs[1].cb = "dl"
  /\ hs[1].outcome = "download_failed"
  /\ \E k \in DOMAIN URL_CACHE : URL_CACHE[k].time = SWEEP_INTERVAL

\* C15: a sweep pass at time now removes no entry of age CACHE_TTL or less
\* (such an entry stays as it was) and adds none, and a second pass at the
\* same now would remove nothing: the store it finds is the store it leaves.
C15_SweepKeepsFreshAndIsIdempotent ==
  [][Sweep =>
       /\ DOMAIN URL_CACHE' \subseteq DOMAIN URL_CACHE
       /\ \A k \in DOMAIN URL_CACHE :
            now - URL_CACHE[k].time <= CACHE_TTL
              => k \in DOMAIN URL_CACHE' /\ URL_CACHE'[k] = URL_CACHE[k]
       /\ Expired(URL_CACHE', now) = {}
       /\ DelAll(URL_CACHE', Expired(URL_CACHE', now)) = URL_CACHE']_vars

\* C15 witness: the pass at age CACHE_TTL of a session is over, the session
\* put at time 0 is still there, and one put later is there with it
C15_Witness ==
  /\ now = CACHE_TTL
  /\ wake = CACHE_TTL + SWEEP_INTERVAL
  /\ {URL_CACHE[k].time : k \in DOMAIN URL_CACHE} = {0, SWEEP_INTERVAL}

\* C16: whatever the handlers are doing, a sweep pass is one step: the keys
\* it deletes are keys of the store (no del of an absent key, so no fault),
\* every entry it removes was older than CACHE_TTL when the pass began (an
\* entry put since is kept), the handlers are left as they were, and the
\* sweeper sleeps for its next pass.  A put and a get are one step as well:
\* the put is in the store at once, and a handler gets the expired notice
\* exactly when its id is not a key at the step of its lookup.
C16_StoreOperationsAreAtomic ==
  [][/\ Sweep =>
          /\ Expired(URL_CACHE, now) \subseteq DOMAIN URL_CACHE
          /\ DOMAIN URL_CACHE' \subseteq DOMAIN URL_CACHE
          /\ \A k \in DOMAIN URL_CACHE \ DOMAIN URL_CACHE' :
               now - URL_CACHE[k].time > CACHE_TTL
          /\ \A k \in DOMAIN URL_CACHE' : URL_CACHE'[k] = URL_CACHE[k]
          /\ hs' = hs
          /\ wake' = now + SWEEP_INTERVAL
     /\ \A text \in LinkTexts, uid \in UIDs, m \in Msgs :
          HandleLink(text, uid, m) =>
            Get(URL_CACHE', uid) = [url |-> extract_url(text), time |-> now]
     /\ \A hh \in Handlers :
          Starts(hh) =>
            (hs'[hh].outcome = "expired" <=> UidOf(hs[hh].data) \notin DOMAIN URL_CACHE)]_vars

\* C16 witness: while cb_select_type waits for its probe, a pass has removed
\* its session and kept a session that was put later
C16_Witness ==
  /\ hs[1].pc = "probing"
  /\ hs[1].uid \notin DOMAIN URL_CACHE
  /\ URL_CACHE # <<>>
  /\ now > CACHE_TTL
  /\ wake > now

\* what cb_download reads from a token: _, media_type, fmt_id, uid
DecodeDl(data) ==
  LET parts == Split(data, "|", 3)
  IN  IF Len(parts) = 4 /\ parts[1] = "dl" THEN <<parts[2], parts[3], parts[4]>>
      ELSE <<>>

\* what cb_select_type reads from a token: _, media_type, uid
DecodeType(data) ==
  LET parts == Split(data, "|", 2)
  IN  IF Len(parts) = 3 /\ parts[1] = "type" THEN <<parts[2], parts[3]>> ELSE <<>>

\* C17: the token of every quality button decodes, as cb_download decodes
\* it, to the media_type and session id build_quality_keyboard was given by
\* cb_select_type and to the format id of the button's format (best for the
\* fallback); the tokens of a type keyboard decode, as cb_select_type
\* decodes them, to the three media types and the session id of the put.
C17_TokensRoundTrip ==
  LET sel == SelectSeq(kbIn.formats, Qualifies)
      bs  == Flat(kbOut)
  IN  kbOut # NoKeyboard
      => /\ Len(bs) = IF Len(sel) = 0 THEN 1 ELSE Len(sel)
         /\ \A i \in 1..Len(bs) :
              DecodeDl(bs[i].callback_data) =
                <<kbIn.media_type,
                  IF Len(sel) = 0 THEN "best" ELSE sel[i].format_id,
                  kbIn.uid>>
         /\ \A uid \in UIDs :
              LET ts == Flat(build_type_keyboard(uid))
              IN  [i \in 1..Len(ts) |-> DecodeType(ts[i].callback_data)]
                    = << <<"video", uid>>, <<"audio", uid>>, <<"thumbnail", uid>> >>

\* C17 witness: a keyboard of two quality buttons for a thumbnail request,
\* the second of which decodes to format 18 of the session
C17_Witness ==
  /\ kbIn.formats = <<F1080, FAudio, F360>>
  /\ Len(Flat(kbOut)) = 2
  /\ DecodeDl(Flat(kbOut)[2].callback_data) = <<"thumbnail", "18", "1a2b3c4d">>

\* session uid put at time t is in the store
Holds(uid, t) == uid \in DOMAIN URL_CACHE /\ URL_CACHE[uid].time = t

\* the put times early enough for the clock of the model to reach the pass
\* that is due to remove the session
SweptInModel ==
  {t \in {n * SWEEP_INTERVAL : n \in 0..MaxTicks} :
     t + CACHE_TTL + SWEEP_INTERVAL <= MaxTicks * SWEEP_INTERVAL}

ShownDl(ms, m) ==
  {DecodeDl(Flat(ms[m].kb)[i].callback_data)[3] :
     i \in {j \in 1..Len(Flat(ms[m].kb)) : DecodeDl(Flat(ms[m].kb)[j].callback_data) # <<>>}}

\* a quality button for session uid is on show or has been pressed and is
\* waiting for cb_download: the probe for the session has succeeded
Probed(uid) ==
  \/ \E m \in Msgs : msgs[m].alive /\ uid \in ShownDl(msgs, m)
  \/ \E hh \in Handlers : hs[hh].pc = "queued" /\ DecodeDl(hs[hh].data) # <<>>
                           /\ DecodeDl(hs[hh].data)[3] = uid

\* handler hh comes to stage pc in this step
Enters(hh, pc) == hs[hh].pc # pc /\ hs'[hh].pc = pc

\* C19: the steps of a workflow come in causal order.  A probe starts from
\* a type button whose session is in the store (put first); quality buttons
\* are shown only by a probe that succeeded, for the session probed; the
\* session behind a quality button stays the one that was probed until the
\* fetch looks it up; a fetch starts from a quality button whose session is
\* in the store; an upload starts only when the fetch gave a path to a file
\* that exists; and a failed probe or fetch ends the handler at once.
C19_StepsAreCausallyOrdered ==
  [][/\ \A hh \in Handlers :
          /\ Enters(hh, "probing") =>
               /\ hs[hh].pc = "queued"
               /\ DecodeType(hs[hh].data) # <<>>
               /\ DecodeType(hs[hh].data)[2] \in DOMAIN URL_CACHE
          /\ Enters(hh, "downloading") =>
               /\ hs[hh].pc = "queued"
               /\ DecodeDl(hs[hh].data) # <<>>
               /\ DecodeDl(hs[hh].data)[3] \in DOMAIN URL_CACHE
          /\ Enters(hh, "uploading") =>
               /\ hs[hh].pc = "downloading"
               /\ hs[hh].res.ret # None
               /\ Exists(disk', hs[hh].res.ret)
          /\ (hs[hh].pc = "probing" /\ hs'[hh] # hs[hh] /\ hs'[hh].outcome # "quality_prompt")
               => hs'[hh].pc \in {"probing", "done"}
          /\ (hs[hh].pc = "downloading" /\ hs'[hh].pc \notin {"downloading", "uploading"})
               => hs'[hh].pc = "done" /\ hs'[hh].outcome = "download_failed"
          /\ (hs[hh].pc = "done" /\ hs'[hh] # hs[hh]) => hs'[hh].pc = "queued"
     /\ \A m \in Msgs :
          (msgs'[m] # msgs[m] /\ ShownDl(msgs', m) # {}) =>
            \E hh \in Handlers :
              /\ hs[hh].pc = "probing"
              /\ hs'[hh].outcome = "quality_prompt"
              /\ ShownDl(msgs', m) = {hs[hh].uid}
     /\ \A uid \in UIDs :
          (Probed(uid) /\ uid \in DOMAIN URL_CACHE /\ uid \in DOMAIN URL_CACHE')
            => URL_CACHE'[uid] = URL_CACHE[uid]]_vars

\* C20: cb_download ends either delivered or failed, never both: it ends
\* with the upload-error notice only if the file was not sent to the user,
\* and as delivered only if it was.
C20_DeliveredOrFailed ==
  [][\A hh \in Handlers :
       Ends(hh) =>
         /\ hs'[hh].outcome = "upload_failed" => ~hs[hh].sent
         /\ hs'[hh].outcome = "delivered" => hs[hh].sent]_vars

====
